---------------------------- MODULE Spec2Model ----------------------------
(***************************************************************************)
(* The validator of the storage subnet (neurons/validator.py, main).       *)
(*                                                                         *)
(* The state is the local state of main(): the two allocation lists, the   *)
(* score vector, the step counter, the metagraph snapshot and the position *)
(* of the control flow inside the `while True` loop.  Every external call   *)
(* (sqlite3, dendrite, subtensor) is a nondeterministic choice over the     *)
(* results it can return and the exceptions it can raise.                   *)
(*                                                                         *)
(* Python lists are 0-based; uids here are 1-based (uid u is index u-1).    *)
(* An allocation dict keeps the two fields the loop reads or writes,        *)
(* "miner" and "n_chunks"; "path", "seed", "validator" and "hash" are fixed *)
(* at startup and are functions of "miner".                                 *)
(***************************************************************************)
EXTENDS Integers, Sequences, FiniteSets

VARIABLES
    next_allocations,      \* list of dicts, line 133
    verified_allocations,  \* list of dicts, line 134
    previous_allocations,  \* deepcopy taken at the top of a round, line 174
    scores,                \* torch tensor of line 129
    step,                  \* line 170
    metagraph,             \* hotkeys of the current metagraph snapshot, lines 112, 293
    pc,                    \* position of the control flow
    i,                     \* index of the for loop of line 175
    calls,                 \* per uid, the external calls made for it in this round
    verdict,               \* per uid, how its audit ended in this round
    epoch,                 \* number of the current iteration of `while True`, from 1
    ledger,                \* the set_weights calls made so far, oldest first
    chunk_i,               \* the chunk index of line 182, 0 before the first draw
    seeded,                \* per uid, the n_chunks last handed to allocate.generate
    target,                \* per uid, the hotkey whose axon was queried in this round
    proven,                \* per uid, the working n_chunks of its last Match, 0 if none
    boundary,              \* what ran since the last pass: the resync, the sleep
    cancelled              \* a KeyboardInterrupt has been raised

vars == <<next_allocations, verified_allocations, previous_allocations, scores,
          step, metagraph, pc, i, calls, verdict, epoch, ledger,
          chunk_i, seeded, target, proven, boundary, cancelled>>

\* The variables an audit of one provider never writes.
loop_state == <<previous_allocations, scores, step, metagraph, epoch, ledger,
                seeded, boundary>>

----------------------------------------------------------------------------
(* Bounds of the exploration. *)

\* The model stops MaxStep completed rounds after the state it starts in.
MaxStep == 2

\* Rounds cut short by a caught RuntimeError, beyond the completed ones.
MaxAborted == 1

----------------------------------------------------------------------------
(* Program constants and startup inputs. *)

MIN_N_CHUNKS == 1024

\* The period of `(step + 1) % 1000 == 0`.
K == 1000

\* wallet.hotkey.ss58_address
wallet_hotkey == "val"

\* metagraph.hotkeys at startup; the validator is registered (line 116).
StartupHotkeys == <<"m1", "val", "m2">>

\* Snapshots subtensor.metagraph() can return: the startup one, or uid 3
\* re-registered by another hotkey.
Rosters == {StartupHotkeys, <<"m1", "val", "m3">>}

Uids == DOMAIN StartupHotkeys

----------------------------------------------------------------------------
(* Arithmetic of the allocation updates. *)

Max(a, b) == IF a >= b THEN a ELSE b

Min(a, b) == IF a <= b THEN a ELSE b

\* int(c * 1.1): the float product truncated toward zero.  For 0 <= c < 200000
\* the double product and the exact quotient truncate to the same integer.
Mul11Bad(c) == c

Mul11(c) == (c * 11) \div 10

\* int(c * 0.9)
Mul09Bad(c) == c

Mul09(c) == (c * 9) \div 10

\* lines 213-215 and 247-249
DecreasedBad(c) == Mul09(c)

Decreased(c) == Max(Mul09(c), MIN_N_CHUNKS)

\* lines 216-219 and 250-253
ClampedBad(w, f) == f

Clamped(w, f) == Min(w, f)

\* lines 235-237: the floor takes the working value that was probed.
VerifiedBad(c) == Mul11(c)

Verified(c) == c

\* random.randint(a, b) returns any integer of a..b; the model draws the two
\* ends of the range.
RandIntBad(a, b) == {a, b + 1}

RandInt(a, b) == {a, b}

\* line 177
IsSelfBad(alloc) == FALSE

IsSelf(alloc) == alloc.miner = wallet_hotkey

----------------------------------------------------------------------------
(* torch.nn.functional.normalize(scores, p=1.0, dim=0): v / max(||v||_1, eps). *)
(* A weight is the exact fraction num/den.                                     *)

Abs(x) == IF x < 0 THEN -x ELSE x

RECURSIVE SumUpTo(_, _)
SumUpTo(v, n) == IF n = 0 THEN 0 ELSE v[n] + SumUpTo(v, n - 1)

Sum(v) == SumUpTo(v, Len(v))

L1NormBad(v) == 1

L1Norm(v) == Sum([u \in DOMAIN v |-> Abs(v[u])])

Normalize(v) ==
    IF L1Norm(v) = 0
    THEN [u \in DOMAIN v |-> [num |-> 0, den |-> 1]]
    ELSE [u \in DOMAIN v |-> [num |-> v[u], den |-> L1Norm(v)]]

----------------------------------------------------------------------------
(* Startup, lines 126-170. *)

NoCalls == [u \in Uids |-> {}]

NoVerdict == [u \in Uids |-> "none"]

NoTarget == [u \in Uids |-> "none"]

InitScores == [u \in Uids |-> 1]

InitAllocations ==
    /\ next_allocations =
         [u \in Uids |-> [miner |-> StartupHotkeys[u], n_chunks |-> MIN_N_CHUNKS]]
    /\ verified_allocations =
         [u \in Uids |-> [miner |-> StartupHotkeys[u], n_chunks |-> 0]]
    /\ previous_allocations = next_allocations
    /\ scores = InitScores
    /\ metagraph = StartupHotkeys
    /\ pc = "loop"
    /\ ledger = <<>>
    /\ seeded = [u \in Uids |-> MIN_N_CHUNKS]
    /\ target = NoTarget
    /\ proven = [u \in Uids |-> 0]
    /\ cancelled = FALSE

Init ==
    /\ InitAllocations
    /\ chunk_i = 0
    /\ boundary = {"metagraph"}
    /\ i = 1
    /\ calls = NoCalls
    /\ verdict = NoVerdict
    /\ step = 0
    /\ epoch = 1

\* The state at the top of the loop after K - 1 completed rounds in each of
\* which every lookup failed, so that no allocation changed, and the metagraph
\* came back as it was.
InitCadence ==
    /\ InitAllocations
    /\ chunk_i = 1
    /\ boundary = {"metagraph", "sleep"}
    /\ i = Len(StartupHotkeys) + 1
    /\ calls = [u \in Uids |-> IF StartupHotkeys[u] = wallet_hotkey
                                THEN {} ELSE {"challenge", "connect", "lookup"}]
    /\ verdict = [u \in Uids |-> IF StartupHotkeys[u] = wallet_hotkey
                                  THEN "Self" ELSE "StoreError"]
    /\ step = K - 1
    /\ epoch = K

----------------------------------------------------------------------------
(* The loop, lines 171-305. *)

\* line 174
StartRound ==
    /\ pc = "loop"
    /\ previous_allocations' = next_allocations
    /\ i' = 1
    /\ pc' = "audit"
    /\ calls' = NoCalls
    /\ verdict' = NoVerdict
    /\ target' = NoTarget
    /\ boundary' = {}
    /\ UNCHANGED <<next_allocations, verified_allocations, scores, step,
                   metagraph, epoch, ledger, chunk_i, seeded, proven, cancelled>>

\* The for loop moves to the next allocation, or ends.
Advance ==
    /\ i' = i + 1
    /\ pc' = IF i + 1 > Len(next_allocations) THEN "tail" ELSE "audit"

AtAudit == pc = "audit" /\ i \in Uids

\* lines 177-178
SkipSelf ==
    /\ AtAudit
    /\ IsSelf(next_allocations[i])
    /\ verdict' = [verdict EXCEPT ![i] = "Self"]
    /\ Advance
    /\ UNCHANGED <<next_allocations, verified_allocations, calls, chunk_i,
                   target, proven, cancelled>>
    /\ UNCHANGED loop_state

\* line 182
Draw == chunk_i' \in RandInt(1, next_allocations[i].n_chunks)

\* line 186: sqlite3.connect raises; a sqlite3.Error is not a RuntimeError, so
\* neither handler of lines 298-305 takes it and main() ends.
ConnectFailed ==
    /\ AtAudit
    /\ ~IsSelf(next_allocations[i])
    /\ Draw
    /\ calls' = [calls EXCEPT ![i] = {"challenge", "connect"}]
    /\ verdict' = [verdict EXCEPT ![i] = "ConnectError"]
    /\ pc' = "crashed"
    /\ UNCHANGED <<next_allocations, verified_allocations, i, target, proven,
                   cancelled>>
    /\ UNCHANGED loop_state

\* lines 195-199: the bare except logs the failure and continues.
SkipProvider ==
    /\ Draw
    /\ calls' = [calls EXCEPT ![i] = {"challenge", "connect", "lookup"}]
    /\ verdict' = [verdict EXCEPT ![i] = "StoreError"]
    /\ Advance
    /\ UNCHANGED <<next_allocations, verified_allocations, target, proven>>
    /\ UNCHANGED loop_state

\* lines 187-199: the SELECT fails or finds no row; bare except, continue.
LookupFailed ==
    /\ AtAudit
    /\ ~IsSelf(next_allocations[i])
    /\ SkipProvider
    /\ UNCHANGED cancelled

\* lines 187-199: a KeyboardInterrupt raised while the SELECT runs is a
\* BaseException, and the bare except of line 195 takes it like any other.
InterruptSwallowed ==
    /\ AtAudit
    /\ ~IsSelf(next_allocations[i])
    /\ SkipProvider
    /\ cancelled' = TRUE

Queried == {"challenge", "connect", "lookup", "query"}

\* lines 204-208: the request goes to the axon the current metagraph has at
\* index i.
Query ==
    /\ Draw
    /\ calls' = [calls EXCEPT ![i] = Queried]
    /\ target' = [target EXCEPT ![i] = metagraph[i]]
    /\ UNCHANGED cancelled
    /\ UNCHANGED loop_state

\* lines 204-208: dendrite.query raises.  A RuntimeError reaches the handler of
\* line 298; anything else ends main().
QueryRaised(kind) ==
    /\ AtAudit
    /\ ~IsSelf(next_allocations[i])
    /\ Query
    /\ verdict' = [verdict EXCEPT ![i] = "TransportError"]
    /\ pc' = IF kind = "RuntimeError" THEN "handler" ELSE "crashed"
    /\ UNCHANGED <<next_allocations, verified_allocations, i, proven>>

\* lines 213-219 and 247-253
ReduceBad(v) ==
    /\ next_allocations' =
         [next_allocations EXCEPT
            ![i].n_chunks = Decreased(next_allocations[i].n_chunks)]
    /\ verified_allocations' =
         [u \in Uids |->
            [verified_allocations[u] EXCEPT
               !.n_chunks = Clamped(Decreased(next_allocations[i].n_chunks),
                                    verified_allocations[u].n_chunks)]]
    /\ Query
    /\ verdict' = [verdict EXCEPT ![i] = v]
    /\ Advance
    /\ UNCHANGED proven

Reduce(v) ==
    /\ next_allocations' =
         [next_allocations EXCEPT
            ![i].n_chunks = Decreased(next_allocations[i].n_chunks)]
    /\ verified_allocations' =
         [verified_allocations EXCEPT
            ![i].n_chunks = Clamped(Decreased(next_allocations[i].n_chunks),
                                    verified_allocations[i].n_chunks)]
    /\ Query
    /\ verdict' = [verdict EXCEPT ![i] = v]
    /\ Advance
    /\ UNCHANGED proven

\* lines 210-222: miner_data == None
NoResponse ==
    /\ AtAudit
    /\ ~IsSelf(next_allocations[i])
    /\ Reduce("NoResponse")

\* lines 244-256: the digest differs from the stored hash
Mismatch ==
    /\ AtAudit
    /\ ~IsSelf(next_allocations[i])
    /\ Reduce("Mismatch")

\* lines 232-243: the digest equals the stored hash
Match ==
    /\ AtAudit
    /\ ~IsSelf(next_allocations[i])
    /\ verified_allocations' =
         [verified_allocations EXCEPT
            ![i].n_chunks = Verified(next_allocations[i].n_chunks)]
    /\ next_allocations' =
         [next_allocations EXCEPT ![i].n_chunks = Mul11(next_allocations[i].n_chunks)]
    /\ proven' = [proven EXCEPT ![i] = next_allocations[i].n_chunks]
    /\ Query
    /\ verdict' = [verdict EXCEPT ![i] = "Match"]
    /\ Advance

\* line 272
IsTick(s) == (s + 1) % K = 0

\* The rounds completed since the start of the exploration, which is at
\* step = 0 or at step = K - 1.
Explored(s) == IF s >= K - 1 THEN s - (K - 1) ELSE s

\* What subtensor.set_weights can do: return True, return False, raise a
\* RuntimeError, raise anything else.
LedgerOutcomes == {"ack", "nack", "RuntimeError", "Error"}

\* lines 258-295: allocate.generate, the periodic set_weights, step += 1, the
\* metagraph resync and the sleep.
EndRound(outcome, roster) ==
    /\ pc = "tail"
    /\ Explored(step) < MaxStep
    /\ seeded' = [u \in Uids |-> next_allocations[u].n_chunks]
    /\ ledger' =
         IF IsTick(step)
         THEN Append(ledger, [epoch   |-> epoch,
                              uids    |-> DOMAIN metagraph,
                              weights |-> Normalize(scores),
                              result  |-> outcome])
         ELSE ledger
    /\ IF IsTick(step) /\ outcome \in {"RuntimeError", "Error"}
       THEN /\ pc' = IF outcome = "RuntimeError" THEN "handler" ELSE "crashed"
            /\ UNCHANGED <<step, metagraph, epoch, boundary>>
       ELSE /\ step' = step + 1
            /\ metagraph' = roster
            /\ boundary' = {"metagraph", "sleep"}
            /\ epoch' = epoch + 1
            /\ pc' = "loop"
    /\ UNCHANGED <<next_allocations, verified_allocations, previous_allocations,
                   scores, i, calls, verdict, chunk_i, target, proven, cancelled>>

\* lines 298-300: the RuntimeError is logged and the while loop goes round.
Recover ==
    /\ pc = "handler"
    /\ epoch - step <= MaxAborted
    /\ pc' = "loop"
    /\ epoch' = epoch + 1
    /\ UNCHANGED <<next_allocations, verified_allocations, previous_allocations,
                   scores, step, metagraph, i, calls, verdict, ledger,
                   chunk_i, seeded, target, proven, boundary, cancelled>>

\* lines 303-305: KeyboardInterrupt inside the try block, exit().
Interrupt ==
    /\ pc \in {"loop", "audit", "tail"}
    /\ pc' = "exited"
    /\ cancelled' = TRUE
    /\ UNCHANGED <<next_allocations, verified_allocations, previous_allocations,
                   scores, step, metagraph, i, calls, verdict, epoch, ledger,
                   chunk_i, seeded, target, proven, boundary>>

Next ==
    \/ StartRound
    \/ SkipSelf
    \/ ConnectFailed
    \/ LookupFailed
    \/ InterruptSwallowed
    \/ \E kind \in {"RuntimeError", "Error"} : QueryRaised(kind)
    \/ NoResponse
    \/ Mismatch
    \/ Match
    \/ \E outcome \in LedgerOutcomes, roster \in Rosters : EndRound(outcome, roster)
    \/ Recover
    \/ Interrupt

Spec == Init /\ [][Next]_vars

SpecCadence == InitCadence /\ [][Next]_vars

----------------------------------------------------------------------------
(* Vocabulary of the properties. *)

Failures == {"Mismatch", "NoResponse"}

\* The step audits uid u and ends with verdict v.
Audited(u, v) == verdict[u] # v /\ verdict'[u] = v

Working(u) == next_allocations[u].n_chunks

Floor(u) == verified_allocations[u].n_chunks

\* n / 10 rounded to the nearest integer.
RoundTenth(n) == (n + 5) \div 10

\* t is n / 10 truncated.
IsTruncTenth(t, n) == 10 * t <= n /\ n < 10 * (t + 1)

Terminated == pc \in {"exited", "crashed"}

\* The for loop of the current round is over, and not by a cancellation.
RoundOver == pc \in {"tail", "handler", "crashed"}

----------------------------------------------------------------------------
(* Properties. *)

\* C1: for every provider, in every reachable state, the n_chunks of its
\* verified (floor) allocation is at most the n_chunks of its next (working)
\* allocation.
C1_FloorLeWorking == \A u \in Uids : Floor(u) <= Working(u)

\* A failure lowered the floor onto a working value above the minimum.
C1_Witness ==
    \E u \in Uids :
        /\ verdict[u] \in Failures
        /\ Floor(u) = Working(u)
        /\ Working(u) > MIN_N_CHUNKS
        /\ previous_allocations[u].n_chunks > Working(u)

\* C2, as stated: in every reachable state, the startup state included, both
\* the working and the floor n_chunks of every provider are at least
\* MIN_N_CHUNKS.
C2_Original ==
    \A u \in Uids : Working(u) >= MIN_N_CHUNKS /\ Floor(u) >= MIN_N_CHUNKS

\* C2, amended: in every reachable state the working n_chunks of every provider
\* is at least MIN_N_CHUNKS and its floor n_chunks is either 0, its startup
\* value, or at least MIN_N_CHUNKS; a failure verdict at working = MIN_N_CHUNKS
\* leaves working at MIN_N_CHUNKS and the floor at 0 or at MIN_N_CHUNKS.
C2_Amended ==
    \A u \in Uids :
        /\ Working(u) >= MIN_N_CHUNKS
        /\ Floor(u) = 0 \/ Floor(u) >= MIN_N_CHUNKS
        /\ (verdict[u] \in Failures
              /\ previous_allocations[u].n_chunks = MIN_N_CHUNKS)
           => Working(u) = MIN_N_CHUNKS /\ Floor(u) \in {0, MIN_N_CHUNKS}

\* A failure verdict at working = MIN_N_CHUNKS, the floor still 0.
C2_Witness ==
    \E u \in Uids :
        /\ verdict[u] \in Failures
        /\ previous_allocations[u].n_chunks = MIN_N_CHUNKS
        /\ Working(u) = MIN_N_CHUNKS
        /\ Floor(u) = 0

\* C3, as stated: a Match verdict at working = c sets working to
\* max(MIN_N_CHUNKS, round(1.1 * c)) and the floor to c.
C3_Original ==
    [][\A u \in Uids :
         Audited(u, "Match") =>
           /\ Working(u)' = Max(MIN_N_CHUNKS, RoundTenth(11 * Working(u)))
           /\ Floor(u)' = Working(u)]_vars

\* C3, amended: a Match verdict at working = c >= MIN_N_CHUNKS sets working to
\* max(MIN_N_CHUNKS, 1.1 * c truncated toward zero) and the floor to c.
C3_Amended ==
    [][\A u \in Uids :
         Audited(u, "Match") =>
           /\ Working(u)' >= MIN_N_CHUNKS
           /\ IsTruncTenth(Working(u)', 11 * Working(u))
           /\ Floor(u)' = Working(u)]_vars

\* A Match at a value where truncating and rounding differ.
C3_Witness ==
    \E u \in Uids :
        /\ verdict[u] = "Match"
        /\ (11 * Floor(u)) % 10 >= 5
        /\ Floor(u) = previous_allocations[u].n_chunks

\* C4, as stated: a Mismatch and a NoResponse verdict at working = c and
\* floor = f both set working to w = max(MIN_N_CHUNKS, round(0.9 * c)) and the
\* floor to min(w, f).
C4_Original ==
    [][\A u \in Uids : \A v \in Failures :
         Audited(u, v) =>
           /\ Working(u)' = Max(MIN_N_CHUNKS, RoundTenth(9 * Working(u)))
           /\ Floor(u)' = Min(Working(u)', Floor(u))]_vars

\* C4, amended: a Mismatch and a NoResponse verdict at working = c and
\* floor = f both set working to w = max(MIN_N_CHUNKS, 0.9 * c truncated toward
\* zero) and the floor to min(w, f).
C4_Amended ==
    [][\A u \in Uids : \A v \in Failures :
         Audited(u, v) =>
           /\ Working(u)' >= MIN_N_CHUNKS
           /\ \/ IsTruncTenth(Working(u)', 9 * Working(u))
              \/ Working(u)' = MIN_N_CHUNKS /\ 9 * Working(u) < 10 * MIN_N_CHUNKS
           /\ Floor(u)' <= Working(u)'
           /\ Floor(u)' <= Floor(u)
           /\ Floor(u)' \in {Working(u)', Floor(u)}]_vars

\* A failure at a value above the clamp where truncating and rounding differ.
C4_Witness ==
    \E u \in Uids :
        /\ verdict[u] \in Failures
        /\ (9 * previous_allocations[u].n_chunks) % 10 >= 5
        /\ Working(u) > MIN_N_CHUNKS
        /\ Working(u) < previous_allocations[u].n_chunks

\* C5: every Match verdict strictly increases the provider's working n_chunks;
\* every failure verdict leaves it at least MIN_N_CHUNKS, never increases it,
\* and strictly decreases it while it is above MIN_N_CHUNKS, so that a run of
\* failures reaches MIN_N_CHUNKS after finitely many steps.
C5_Monotone ==
    [][\A u \in Uids :
         /\ Audited(u, "Match") => Working(u)' > Working(u)
         /\ \A v \in Failures :
              Audited(u, v) =>
                /\ Working(u)' <= Working(u)
                /\ Working(u)' >= MIN_N_CHUNKS
                /\ Working(u) > MIN_N_CHUNKS => Working(u)' < Working(u)]_vars

\* A failure brought a working value that Matches had raised back to the minimum.
C5_Witness ==
    \E u \in Uids :
        /\ verdict[u] \in Failures
        /\ previous_allocations[u].n_chunks > MIN_N_CHUNKS
        /\ Working(u) = MIN_N_CHUNKS
        /\ Floor(u) = MIN_N_CHUNKS

\* C6: the allocation pair of the provider whose hotkey is the validator's own
\* keeps its startup values, and no challenge, store access or retrieval
\* request is made for it.
C6_SelfUntouched ==
    \A u \in Uids :
        next_allocations[u].miner = wallet_hotkey =>
          /\ Working(u) = MIN_N_CHUNKS
          /\ Floor(u) = 0
          /\ calls[u] = {}

\* The loop passed over the validator's own record in a round that changed
\* the allocation of another provider.
C6_Witness ==
    \E u, j \in Uids :
        /\ next_allocations[u].miner = wallet_hotkey
        /\ verdict[u] = "Self"
        /\ verdict[j] = "Match"
        /\ Working(j) > MIN_N_CHUNKS

\* C7: when the pass over the providers is over, every provider other than the
\* validator that comes after a provider whose audit met a store failure or a
\* transport failure has been audited in that round.
C7_Isolation ==
    RoundOver =>
      \A u, j \in Uids :
          (/\ u < j
           /\ verdict[u] \in {"ConnectError", "StoreError", "TransportError",
                              "NoResponse"}
           /\ next_allocations[j].miner # wallet_hotkey)
          => calls[j] # {}

\* C8: the process terminates only through the user's cancellation.
C8_OnlyCancellationExits == Terminated => pc = "exited"

\* C9: every weight vector passed to set_weights is the L1 normalization of
\* the score vector: no entry is negative and the entries sum to 1.
C9_WeightsNormalized ==
    \A k \in DOMAIN ledger :
        LET w == ledger[k].weights
            l1 == Sum([u \in DOMAIN scores |-> Abs(scores[u])])
        IN  /\ DOMAIN w = DOMAIN scores
            /\ \A u \in DOMAIN w :
                 /\ w[u].den > 0
                 /\ w[u].num >= 0
                 /\ w[u].num * l1 = scores[u] * w[u].den
                 /\ Sum([j \in DOMAIN w |-> w[j].num]) = w[u].den

\* set_weights has been called.
C9_Witness ==
    /\ ledger # <<>>
    /\ \E u \in Uids : scores[u] # 0

\* C10: set_weights is called in every K-th iteration of the loop and in no
\* other, so two consecutive calls are exactly K iterations apart.
C10_Cadence ==
    /\ \A k \in DOMAIN ledger : ledger[k].epoch % K = 0
    /\ \A k \in DOMAIN ledger :
         k > 1 => ledger[k].epoch - ledger[k - 1].epoch = K
    /\ (pc = "loop" /\ (epoch - 1) % K = 0 /\ epoch > 1)
         => (ledger # <<>> /\ ledger[Len(ledger)].epoch = epoch - 1)

\* C11: once a KeyboardInterrupt has been raised in a round in flight, the
\* process has exited: no further provider is audited and set_weights is not
\* called.
C11_CancelExits == cancelled => pc = "exited"

\* C12: the working n_chunks of every provider is at least 1, and the chunk
\* index drawn for a provider lies between 1 and the working n_chunks that
\* provider has when the index is drawn.
C12_ChunkInRange ==
    [][\A u \in Uids :
         /\ Working(u) >= 1
         /\ (calls[u] = {} /\ calls'[u] # {})
            => (1 <= chunk_i' /\ chunk_i' <= Working(u))]_vars

\* The index drawn is the last chunk of an allocation that has grown.
C12_Witness ==
    \E u \in Uids :
        /\ "challenge" \in calls[u]
        /\ chunk_i = previous_allocations[u].n_chunks
        /\ chunk_i > MIN_N_CHUNKS
        /\ i = u + 1

\* C13: when the hash cannot be read from the store, whether the connection or
\* the lookup fails, no retrieval request is sent to the provider, its working
\* and floor n_chunks stay as they are, and the for loop goes on to the next
\* allocation.
C13_StoreSkip ==
    [][\A u \in Uids :
         (Audited(u, "StoreError") \/ Audited(u, "ConnectError")) =>
           /\ "query" \notin calls'[u]
           /\ Working(u)' = Working(u)
           /\ Floor(u)' = Floor(u)
           /\ i' = i + 1
           /\ pc' \in {"audit", "tail"}]_vars

\* C14: when the retrieval request yields no usable response, whether it
\* returns None or raises, the provider's allocation takes the decrease of a
\* NoResponse in that step and the for loop goes on.
C14_NoResponseDegrades ==
    [][\A u \in Uids :
         (Audited(u, "NoResponse") \/ Audited(u, "TransportError")) =>
           /\ Working(u)' = Max(MIN_N_CHUNKS, (9 * Working(u)) \div 10)
           /\ Floor(u)' = Min(Working(u)', Floor(u))
           /\ i' = i + 1
           /\ pc' \in {"audit", "tail"}]_vars

\* C15: after a set_weights call that failed, by a negative result or by an
\* exception, the loop goes on, and the next set_weights call comes no sooner
\* than K iterations later.
C15_NoRetry ==
    /\ \A k \in DOMAIN ledger :
         (k > 1 /\ ledger[k - 1].result # "ack")
         => ledger[k].epoch >= ledger[k - 1].epoch + K
    /\ (ledger # <<>> /\ ledger[Len(ledger)].result # "ack" /\ pc = "crashed")
         => i \in Uids

\* C16: every round but the first starts after a metagraph resync and a sleep
\* that came after the previous round, also when that round was cut short by a
\* caught error.
C16_Cooldown ==
    [][(pc = "loop" /\ pc' = "audit" /\ epoch > 1)
         => {"metagraph", "sleep"} \subseteq boundary]_vars

\* C17: the floor n_chunks of a provider rises only in a step that gives it a
\* Match, and then to the working value that was probed; in any other step it
\* stays or drops to the new working value; it never exceeds the working value
\* of the provider's last Match.
C17_FloorRisesOnMatch ==
    [][\A u \in Uids :
         /\ Floor(u)' > Floor(u) => Audited(u, "Match")
         /\ Audited(u, "Match") => Floor(u)' = Working(u)
         /\ ~Audited(u, "Match")
            => \/ Floor(u)' = Floor(u)
               \/ Floor(u)' < Floor(u) /\ Floor(u)' = Working(u)'
         /\ Floor(u)' <= proven'[u]]_vars

\* A Match raised the floor to a probed value above the minimum.
C17_Witness ==
    \E u \in Uids :
        /\ verdict[u] = "Match"
        /\ Floor(u) = previous_allocations[u].n_chunks
        /\ Floor(u) > MIN_N_CHUNKS
        /\ proven[u] = Floor(u)

\* C18: a step changes the working or the floor n_chunks of a provider only if
\* it is the audit of that provider, which had no verdict yet in this round
\* and gets a Match, a Mismatch or a NoResponse; no step changes the scores or
\* the miner of a record.
C18_OwnRecordOnly ==
    [][/\ scores' = scores
       /\ \A u \in Uids :
            /\ next_allocations'[u].miner = next_allocations[u].miner
            /\ verified_allocations'[u].miner = verified_allocations[u].miner
            /\ (Working(u)' # Working(u) \/ Floor(u)' # Floor(u))
               => /\ pc = "audit"
                  /\ u = i
                  /\ verdict[u] = "none"
                  /\ verdict'[u] \in {"Match", "Mismatch", "NoResponse"}]_vars

\* Two providers changed in one round, each once, while a third record with a
\* raised floor stayed as it was.
C18_Witness ==
    \E u, j \in Uids :
        /\ u # j
        /\ verdict[u] \in Failures
        /\ Working(u) < previous_allocations[u].n_chunks
        /\ verdict[j] = "Match"
        /\ Floor(j) > Working(u)

\* C19: the retrieval request made for an allocation record goes to the hotkey
\* stored in that record, and never to the validator's own hotkey.
C19_QueriesRecordOwner ==
    \A u \in Uids :
        target[u] # "none" =>
          /\ target[u] = next_allocations[u].miner
          /\ target[u] # wallet_hotkey

\* C20: at the top of every iteration of the loop, allocate.generate has been
\* called with the working n_chunks every provider has now.
C20_SeededAtRoundStart ==
    pc = "loop" => \A u \in Uids : seeded[u] = Working(u)

=============================================================================
